---- MODULE Spec2Model ----
(***************************************************************************)
(* Model of scripts/extract_enums.py: extraction of enum shapes from a     *)
(* service catalog, derivation of the Go-style and Python-style constant   *)
(* names, assembly of the output document and its serialization to disk.   *)
(*                                                                         *)
(* Python strings are sequences of one-character strings.  Python dicts,   *)
(* which keep insertion order, are sequences of <<key, value>> pairs with  *)
(* distinct keys.                                                          *)
(***************************************************************************)
EXTENDS Integers, Sequences, FiniteSets, TLC

VARIABLES
    pc,                 \* position of the run
    service,            \* to_go_const_name argument
    enum_name,          \* to_go_const_name argument
    value,              \* raw enum value under derivation
    go_name,            \* result of to_go_const_name
    py_name,            \* result of to_python_const_name
    renorm,             \* to_python_const_name applied to py_name
    single,             \* generate_enum_data applied to the one value
    available_services, \* session.get_available_services()
    models,             \* what loader.load_service_model gives per service
    idx,                \* number of services the extraction loop has handled
    result,             \* extract_all_enums: result
    all_enums,          \* main: all_enums
    output,             \* main: output
    data,               \* json.dumps(output, indent=2, sort_keys=True)
    old_file,           \* destination file before the run
    file                \* destination file now

vars == <<pc, service, enum_name, value, go_name, py_name, renorm, single,
          available_services, models, idx, result, all_enums, output, data,
          old_file, file>>

nameVars == <<service, enum_name, value, go_name, py_name, renorm, single>>
extractVars == <<available_services, models, idx, result>>
mainVars == <<all_enums, output, data>>
fileVars == <<old_file, file>>

----------------------------------------------------------------------------
(* Bounds of the model *)

MaxLen == 3            \* longest raw value enumerated for the derivations
MaxServices == 2       \* most services in a catalog
MaxShapes == 3         \* most shapes in a catalog
MaxMapShapes == 2      \* most shapes in an assembled mapping

----------------------------------------------------------------------------
(* Characters *)

Lowers == <<"a","b","c","d","e","f","g","h","i","j","k","l","m",
            "n","o","p","q","r","s","t","u","v","w","x","y","z">>
Uppers == <<"A","B","C","D","E","F","G","H","I","J","K","L","M",
            "N","O","P","Q","R","S","T","U","V","W","X","Y","Z">>
Digits == <<"0","1","2","3","4","5","6","7","8","9">>

Range(s) == {s[i] : i \in DOMAIN s}
IndexOf(s, c) == CHOOSE i \in DOMAIN s : s[i] = c

IsLower(c) == c \in Range(Lowers)
IsUpper(c) == c \in Range(Uppers)
isdigit(c) == c \in Range(Digits)
IsAlnum(c) == IsLower(c) \/ IsUpper(c) \/ isdigit(c)

\* code point of a character (string comparison is by code point)
Ord(c) ==
    IF IsLower(c) THEN 96 + IndexOf(Lowers, c)
    ELSE IF IsUpper(c) THEN 64 + IndexOf(Uppers, c)
    ELSE IF isdigit(c) THEN 47 + IndexOf(Digits, c)
    ELSE CASE c = " " -> 32
           [] c = "(" -> 40
           [] c = "-" -> 45
           [] c = "." -> 46
           [] c = "_" -> 95

UpperChar(c) == IF IsLower(c) THEN Uppers[IndexOf(Lowers, c)] ELSE c
LowerChar(c) == IF IsUpper(c) THEN Lowers[IndexOf(Uppers, c)] ELSE c

upper(s) == [i \in DOMAIN s |-> UpperChar(s[i])]
lower(s) == [i \in DOMAIN s |-> LowerChar(s[i])]

\* s[1:]
Rest(s) == IF s = <<>> THEN <<>> ELSE Tail(s)

\* str.capitalize()
capitalize(s) == IF s = <<>> THEN <<>> ELSE <<UpperChar(s[1])>> \o lower(Rest(s))

\* str.replace(old, new) for one-character old and new
replace(s, old, new) == [i \in DOMAIN s |-> IF s[i] = old THEN new ELSE s[i]]

\* str < str
RECURSIVE StrLess(_, _)
StrLess(a, b) ==
    IF a = <<>> THEN b # <<>>
    ELSE IF b = <<>> THEN FALSE
    ELSE IF a[1] = b[1] THEN StrLess(Tail(a), Tail(b))
    ELSE Ord(a[1]) < Ord(b[1])

----------------------------------------------------------------------------
(* to_go_const_name, capitalize_service *)

\* re.sub(r"[^a-zA-Z0-9]+", " ", value)
RECURSIVE NormalizeRuns(_)
NormalizeRuns(v) ==
    IF v = <<>> THEN <<>>
    ELSE IF IsAlnum(v[1]) THEN <<v[1]>> \o NormalizeRuns(Tail(v))
    ELSE LET rest == NormalizeRuns(Tail(v))
         IN  IF Len(v) > 1 /\ ~IsAlnum(v[2]) THEN rest ELSE <<" ">> \o rest

\* str.split(): the non-empty words between runs of whitespace
RECURSIVE SplitFrom(_, _)
SplitFrom(s, word) ==
    IF s = <<>> THEN (IF word = <<>> THEN <<>> ELSE <<word>>)
    ELSE IF s[1] = " "
         THEN (IF word = <<>> THEN <<>> ELSE <<word>>) \o SplitFrom(Tail(s), <<>>)
         ELSE SplitFrom(Tail(s), Append(word, s[1]))

split(s) == SplitFrom(s, <<>>)

special_cases ==
    << <<<<"e","c","2">>, <<"E","c","2">>>>,
       <<<<"e","c","s">>, <<"E","c","s">>>>,
       <<<<"r","d","s">>, <<"R","d","s">>>>,
       <<<<"s","3">>, <<"S","3">>>>,
       <<<<"a","c","m">>, <<"A","c","m">>>>,
       <<<<"e","l","b","v","2">>, <<"E","l","b","v","2">>>> >>

capitalize_service(svc) ==
    IF \E i \in DOMAIN special_cases : special_cases[i][1] = svc
    THEN special_cases[CHOOSE i \in DOMAIN special_cases : special_cases[i][1] = svc][2]
    ELSE capitalize(svc)

\* the word's first letter raised, the case of the rest left alone
CapWord_keep_case(word) == <<UpperChar(word[1])>> \o Rest(word)

\* word[0].upper() + word[1:].lower()
CapWord(word) == <<UpperChar(word[1])>> \o lower(Rest(word))

RECURSIVE AppendWords(_, _)
AppendWords(res, words) ==
    IF words = <<>> THEN res
    ELSE AppendWords(IF words[1] # <<>> THEN res \o CapWord(words[1]) ELSE res,
                     Tail(words))

to_go_const_name(svc, shape, v) ==
    AppendWords(capitalize_service(svc) \o shape, split(NormalizeRuns(v)))

----------------------------------------------------------------------------
(* to_python_const_name *)

\* re.sub(r"[^a-zA-Z0-9_]", "", name)
StripNonWord(s) == SelectSeq(s, LAMBDA c : IsAlnum(c) \/ c = "_")

\* the guard left out
LeadingDigitGuard_missing(name) == name

\* the guard without its digit test
LeadingDigitGuard_always(name) == IF name # <<>> THEN <<"_">> \o name ELSE name

\* if name and name[0].isdigit(): name = "_" + name
LeadingDigitGuard(name) ==
    IF name # <<>> /\ isdigit(name[1]) THEN <<"_">> \o name ELSE name

to_python_const_name(v) ==
    LeadingDigitGuard(upper(StripNonWord(replace(replace(v, ".", "_"), "-", "_"))))

----------------------------------------------------------------------------
(* Dicts in insertion order *)

Keys(d) == [i \in DOMAIN d |-> d[i][1]]
HasKey(d, k) == \E i \in DOMAIN d : d[i][1] = k
Get(d, k) == d[CHOOSE i \in DOMAIN d : d[i][1] = k][2]

\* d[k] = v
DictSet(d, k, v) ==
    IF HasKey(d, k)
    THEN [i \in DOMAIN d |-> IF d[i][1] = k THEN <<k, v>> ELSE d[i]]
    ELSE Append(d, <<k, v>>)

\* the items in insertion order
sorted_insertion_order(items) == items

\* sorted(d.items()): the keys of a dict are distinct, so the key decides
sorted(items) ==
    LET rank(i) == 1 + Cardinality({j \in DOMAIN items : StrLess(items[j][1], items[i][1])})
    IN  [r \in DOMAIN items |-> items[CHOOSE i \in DOMAIN items : rank(i) = r]]

----------------------------------------------------------------------------
(* generate_enum_data *)

\* the loop without its test of py_name
EnumValues_unfiltered(svc, shape_name, values) ==
    [i \in DOMAIN values |->
        [value  |-> values[i],
         goName |-> to_go_const_name(svc, shape_name, values[i]),
         pyName |-> to_python_const_name(values[i])]]

\* the loop skipping a raw value it has already seen
EnumValues_dedup(svc, shape_name, values) ==
    LET first == SelectSeq([i \in DOMAIN values |->
                               IF \E j \in 1..(i - 1) : values[j] = values[i]
                               THEN <<>> ELSE <<values[i]>>],
                           LAMBDA x : x # <<>>)
    IN  SelectSeq([i \in DOMAIN first |->
                      [value  |-> first[i][1],
                       goName |-> to_go_const_name(svc, shape_name, first[i][1]),
                       pyName |-> to_python_const_name(first[i][1])]],
                  LAMBDA e : e.pyName # <<>>)

\* the inner loop over the values of one shape
EnumValues(svc, shape_name, values) ==
    SelectSeq([i \in DOMAIN values |->
                  [value  |-> values[i],
                   goName |-> to_go_const_name(svc, shape_name, values[i]),
                   pyName |-> to_python_const_name(values[i])]],
              LAMBDA e : e.pyName # <<>>)

\* the loop over the shapes of one service
RECURSIVE ServiceEnums(_, _, _)
ServiceEnums(svc, items, service_enums) ==
    IF items = <<>> THEN service_enums
    ELSE LET shape_name == items[1][1]
             enum_values == EnumValues(svc, shape_name, items[1][2])
         IN  ServiceEnums(svc, Tail(items),
                 IF enum_values # <<>>
                 THEN DictSet(service_enums, shape_name,
                              [name |-> shape_name, values |-> enum_values])
                 ELSE service_enums)

\* the loop over the services
RECURSIVE ServicesLoop(_, _)
ServicesLoop(items, services) ==
    IF items = <<>> THEN services
    ELSE LET svc == items[1][1]
             service_enums == ServiceEnums(svc, sorted(items[1][2]), <<>>)
         IN  ServicesLoop(Tail(items),
                 IF service_enums # <<>>
                 THEN DictSet(services, svc, service_enums)
                 ELSE services)

generate_enum_data(enums) == [services |-> ServicesLoop(sorted(enums), <<>>)]

----------------------------------------------------------------------------
(* json.dumps(output, indent=2, sort_keys=True): the text, line by line.   *)
(* A line is <<indent level, kind, key, string value>>.                    *)

K_none == <<>>
K_services == <<"s","e","r","v","i","c","e","s">>
K_name == <<"n","a","m","e">>
K_values == <<"v","a","l","u","e","s">>
K_goName == <<"g","o","N","a","m","e">>
K_pyName == <<"p","y","N","a","m","e">>
K_value == <<"v","a","l","u","e">>

\* a JSON string literal: quoted, with quote and backslash escaped
RECURSIVE Escape(_)
Escape(s) ==
    IF s = <<>> THEN <<>>
    ELSE (IF s[1] \in {"\"", "\\"} THEN <<"\\", s[1]>> ELSE <<s[1]>>) \o Escape(Tail(s))

JsonString(s) == <<"\"">> \o Escape(s) \o <<"\"">>

Line(ind, kind, key, val) == <<ind, kind, key, val>>

RECURSIVE Flatten(_)
Flatten(ss) == IF ss = <<>> THEN <<>> ELSE ss[1] \o Flatten(Tail(ss))

\* one element of a "values" list; its keys come out sorted
DumpEntry(e) ==
    << Line(5, "{", K_none, <<>>),
       Line(6, "str", JsonString(K_goName), JsonString(e.goName)),
       Line(6, "str", JsonString(K_pyName), JsonString(e.pyName)),
       Line(6, "str", JsonString(K_value), JsonString(e.value)),
       Line(5, "}", K_none, <<>>) >>

DumpShape(item) ==
    << Line(3, "{", JsonString(item[1]), <<>>),
       Line(4, "str", JsonString(K_name), JsonString(item[2].name)),
       Line(4, "[", JsonString(K_values), <<>>) >>
    \o Flatten([i \in DOMAIN item[2].values |-> DumpEntry(item[2].values[i])])
    \o << Line(4, "]", K_none, <<>>),
          Line(3, "}", K_none, <<>>) >>

DumpService(item) ==
    << Line(2, "{", JsonString(item[1]), <<>>) >>
    \o Flatten([i \in DOMAIN item[2] |-> DumpShape(sorted(item[2])[i])])
    \o << Line(2, "}", K_none, <<>>) >>

dumps(doc) ==
    IF doc.services = <<>>
    THEN << Line(0, "{", K_none, <<>>),
            Line(1, "{}", JsonString(K_services), <<>>),
            Line(0, "}", K_none, <<>>) >>
    ELSE << Line(0, "{", K_none, <<>>),
            Line(1, "{", JsonString(K_services), <<>>) >>
         \o Flatten([i \in DOMAIN doc.services |-> DumpService(sorted(doc.services)[i])])
         \o << Line(1, "}", K_none, <<>>),
               Line(0, "}", K_none, <<>>) >>

----------------------------------------------------------------------------
(* Inputs of the name derivations *)

ValueChars == {"x", "B", "1", ".", "-", "_", "(", " "}
RawValues == UNION {[1..n -> ValueChars] : n \in 0..MaxLen}

ServiceIds == { <<"s","3">>, <<"a","b">>, <<"a","B">>, <<"a","-","b">>, <<"1","a">> }
ShapeNames == { <<"R","t">>, <<"s","T">> }

\* the variables a specification does not use keep these values
IdleNames ==
    /\ service = <<>> /\ enum_name = <<>> /\ value = <<>>
    /\ go_name = <<>> /\ py_name = <<>> /\ renorm = <<>>
    /\ single = [services |-> <<>>]
IdleExtract ==
    /\ available_services = <<>> /\ models = <<>> /\ idx = 0 /\ result = <<>>
IdleMain ==
    /\ all_enums = <<>> /\ output = [services |-> <<>>] /\ data = <<>>
IdleFile ==
    /\ old_file = [exists |-> FALSE, lines |-> <<>>]
    /\ file = [exists |-> FALSE, lines |-> <<>>]

InitNames ==
    /\ pc = "derive"
    /\ service \in ServiceIds
    /\ enum_name \in ShapeNames
    /\ value \in RawValues
    /\ go_name = <<>> /\ py_name = <<>> /\ renorm = <<>>
    /\ single = [services |-> <<>>]
    /\ IdleExtract /\ IdleMain /\ IdleFile

DeriveGo ==
    /\ pc = "derive"
    /\ go_name' = to_go_const_name(service, enum_name, value)
    /\ pc' = "go"
    /\ UNCHANGED <<service, enum_name, value, py_name, renorm, single>>
    /\ UNCHANGED <<extractVars, mainVars, fileVars>>

DerivePy ==
    /\ pc = "go"
    /\ py_name' = to_python_const_name(value)
    /\ pc' = "py"
    /\ UNCHANGED <<service, enum_name, value, go_name, renorm, single>>
    /\ UNCHANGED <<extractVars, mainVars, fileVars>>

\* the derivation applied to its own output
Renormalize ==
    /\ pc = "py"
    /\ renorm' = to_python_const_name(py_name)
    /\ pc' = "renorm"
    /\ UNCHANGED <<service, enum_name, value, go_name, py_name, single>>
    /\ UNCHANGED <<extractVars, mainVars, fileVars>>

\* generate_enum_data on the mapping {service: {enum_name: [value]}}
AssembleOne ==
    /\ pc = "renorm"
    /\ single' = generate_enum_data(<< <<service, << <<enum_name, <<value>> >> >> >> >>)
    /\ pc' = "asm"
    /\ UNCHANGED <<service, enum_name, value, go_name, py_name, renorm>>
    /\ UNCHANGED <<extractVars, mainVars, fileVars>>

NextNames == DeriveGo \/ DerivePy \/ Renormalize \/ AssembleOne

SpecNames == InitNames /\ [][NextNames]_vars

----------------------------------------------------------------------------
(* Properties of the name derivations, checked under SpecNames *)

GoDerived == pc \in {"go", "py", "renorm", "asm"}
PyDerived == pc \in {"py", "renorm", "asm"}

OnlyPunctuation(v) == v # <<>> /\ \A i \in DOMAIN v : ~IsAlnum(v[i])
PrefixOnly == capitalize_service(service) \o enum_name

\* C1 as stated: a raw value made only of punctuation has an empty
\* Python-style name, its entry is dropped from the document, and its
\* Go-style name is the service prefix plus the shape name.
C1_PunctuationDropped ==
    (pc = "asm" /\ OnlyPunctuation(value)) =>
        /\ py_name = <<>>
        /\ single.services = <<>>
        /\ go_name = PrefixOnly

\* C1 amended: a punctuation-only raw value has an empty Python-style name,
\* and its entry is dropped, exactly when it contains none of '.', '-', '_';
\* otherwise the name is one '_' per such character and the entry is kept.
\* Either way the Go-style name is the service prefix plus the shape name.
C1_PunctuationAmended ==
    (pc = "asm" /\ OnlyPunctuation(value)) =>
        LET marks == SelectSeq(value, LAMBDA c : c \in {".", "-", "_"})
        IN  /\ go_name = PrefixOnly
            /\ py_name = [i \in DOMAIN marks |-> "_"]
            /\ (marks = <<>>) <=> (single.services = <<>>)
            /\ marks # <<>> =>
                   single.services =
                       << <<service, << <<enum_name,
                             [name |-> enum_name,
                              values |-> << [value |-> value, goName |-> go_name,
                                             pyName |-> py_name] >>] >> >> >> >>

C1_Witness ==
    /\ pc = "asm"
    /\ value = <<"(", " ", "(">>
    /\ py_name = <<>>
    /\ single.services = <<>>

ValidServiceId(svc) ==
    /\ svc # <<>>
    /\ \A i \in DOMAIN svc : IsLower(svc[i]) \/ isdigit(svc[i]) \/ svc[i] = "-"

IsGoIdentifier(name) ==
    /\ name # <<>>
    /\ \A i \in DOMAIN name : IsAlnum(name[i])
    /\ IsLower(name[1]) \/ IsUpper(name[1])

\* C5: for a service id of lowercase letters, digits and hyphens, the
\* Go-style name is one token of ASCII letters and digits that begins with
\* a letter.
C5_GoNameIsIdentifier ==
    (GoDerived /\ ValidServiceId(service)) => IsGoIdentifier(go_name)

\* what the five steps of the Python-style derivation give, character by
\* character
C6_Image(c) ==
    IF c \in {".", "-", "_"} THEN <<"_">>
    ELSE IF IsAlnum(c) THEN <<UpperChar(c)>>
    ELSE <<>>

C6_Body(v) == Flatten([i \in DOMAIN v |-> C6_Image(v[i])])

C6_Expected(v) ==
    IF C6_Body(v) # <<>> /\ C6_Body(v)[1] \in Range(Digits)
    THEN <<"_">> \o C6_Body(v)
    ELSE C6_Body(v)

\* C6: the Python-style name is the raw value with '.' and '-' turned into
\* '_', every other character that is not a letter, digit or '_' deleted,
\* uppercased, and '_' prepended iff it then begins with a digit; a
\* non-empty name has only A-Z, 0-9 and '_' and does not begin with a digit.
C6_PyNameAsSpecified ==
    PyDerived =>
        /\ py_name = C6_Expected(value)
        /\ \A i \in DOMAIN py_name :
               py_name[i] \in Range(Uppers) \cup Range(Digits) \cup {"_"}
        /\ py_name # <<>> => py_name[1] \notin Range(Digits)

C6_Witness ==
    /\ pc = "py"
    /\ value = <<"1", "x">>
    /\ py_name = <<"_", "1", "X">>

\* C7: deriving the Python-style name of a Python-style name changes
\* nothing.
C7_PyNameIdempotent == pc \in {"renorm", "asm"} => renorm = py_name

C7_Witness ==
    /\ pc = "renorm"
    /\ value = <<"1", ".", "x">>
    /\ py_name = <<"_", "1", "_", "X">>
    /\ renorm = py_name

\* the maximal runs of letters and digits of v, in order
C8_IsStart(v, i) == IsAlnum(v[i]) /\ (i = 1 \/ ~IsAlnum(v[i - 1]))
C8_RunEnd(v, i) ==
    CHOOSE j \in i..Len(v) :
        /\ \A k \in i..j : IsAlnum(v[k])
        /\ j = Len(v) \/ ~IsAlnum(v[j + 1])
C8_Rendered(v, i) ==
    IF C8_IsStart(v, i)
    THEN [k \in 1..(C8_RunEnd(v, i) - i + 1) |->
             IF k = 1 THEN UpperChar(v[i]) ELSE LowerChar(v[i + k - 1])]
    ELSE <<>>
C8_Words(v) == Flatten([i \in DOMAIN v |-> C8_Rendered(v, i)])

C8_Prefix(svc) ==
    CASE svc = <<"s","3">> -> <<"S","3">>
      [] svc = <<"a","b">> -> <<"A","b">>
      [] svc = <<"a","B">> -> <<"A","b">>
      [] svc = <<"a","-","b">> -> <<"A","-","b">>
      [] svc = <<"1","a">> -> <<"1","a">>

\* C8: the Go-style name is the service prefix, the shape name verbatim,
\* and each maximal run of letters and digits of the raw value rendered as
\* uppercase(first) + lowercase(rest); no '_' is added before a digit and an
\* empty value gives prefix plus shape name.
C8_GoNameAsSpecified ==
    GoDerived =>
        /\ go_name = C8_Prefix(service) \o enum_name \o C8_Words(value)
        /\ value = <<>> => go_name = C8_Prefix(service) \o enum_name

C8_Witness ==
    /\ pc = "go"
    /\ service = <<"a","B">>
    /\ enum_name = <<"s","T">>
    /\ value = <<"1", "x", "B">>
    /\ go_name = <<"A","b","s","T","1","x","b">>

----------------------------------------------------------------------------
(* extract_all_enums *)

MaxEnumValues == 500

\* shape_def.get("type") == "string" and "enum" in shape_def
IsEnumShape(shape_def) == shape_def.type = "string" /\ shape_def.has_enum

\* the cap as a strict bound
WithinCap_strict(enum_values) == Len(enum_values) < MaxEnumValues

\* len(enum_values) <= 500
WithinCap(enum_values) == Len(enum_values) <= MaxEnumValues

\* result[service_name][shape_name] = enum_values, result a defaultdict(dict)
DefaultSet(res, svc, shape_name, enum_values) ==
    DictSet(res, svc,
            DictSet(IF HasKey(res, svc) THEN Get(res, svc) ELSE <<>>,
                    shape_name, enum_values))

\* The body of the try block once the definition is loaded: the loop over
\* shapes.items().  A shape definition that is not a dict makes
\* shape_def.get raise; what was stored before stays stored.
RECURSIVE ScanShapes(_, _, _)
ScanShapes(svc, shapes, res) ==
    IF shapes = <<>> THEN [result |-> res, raised |-> FALSE]
    ELSE LET shape_name == shapes[1][1]
             shape_def == shapes[1][2]
         IN  IF ~shape_def.is_dict THEN [result |-> res, raised |-> TRUE]
             ELSE IF IsEnumShape(shape_def) /\ WithinCap(shape_def.enum)
             THEN ScanShapes(svc, Tail(shapes),
                             DefaultSet(res, svc, shape_name, shape_def.enum))
             ELSE ScanShapes(svc, Tail(shapes), res)

InLoop == pc = "extract" /\ idx < Len(available_services)
service_name == available_services[idx + 1]
service_model == models[idx + 1]

\* loader.load_service_model raises: except Exception: continue
LoadRaises ==
    /\ InLoop
    /\ ~service_model.loads
    /\ idx' = idx + 1
    /\ UNCHANGED <<pc, available_services, models, result>>
    /\ UNCHANGED <<nameVars, mainVars, fileVars>>

\* the definition loads and every shape is scanned
ScanService ==
    /\ InLoop
    /\ service_model.loads
    /\ ~ScanShapes(service_name, service_model.shapes, result).raised
    /\ result' = ScanShapes(service_name, service_model.shapes, result).result
    /\ idx' = idx + 1
    /\ UNCHANGED <<pc, available_services, models>>
    /\ UNCHANGED <<nameVars, mainVars, fileVars>>

\* the definition loads and the scan raises part-way: except Exception: continue
ScanRaises ==
    /\ InLoop
    /\ service_model.loads
    /\ ScanShapes(service_name, service_model.shapes, result).raised
    /\ result' = ScanShapes(service_name, service_model.shapes, result).result
    /\ idx' = idx + 1
    /\ UNCHANGED <<pc, available_services, models>>
    /\ UNCHANGED <<nameVars, mainVars, fileVars>>

\* return dict(result); all_enums = extract_all_enums()
ReturnResult ==
    /\ pc = "extract"
    /\ idx = Len(available_services)
    /\ all_enums' = result
    /\ pc' = "generate"
    /\ UNCHANGED <<output, data>>
    /\ UNCHANGED <<nameVars, extractVars, fileVars>>

----------------------------------------------------------------------------
(* Catalogs *)

CatalogNames == << <<"a","-","b">>, <<"a","b">>, <<"e","c","2">>, <<"s","3">> >>
ShapeKeys == << <<"A">>, <<"B">>, <<"C">>, <<"D">> >>

Repeat(n) == [i \in 1..n |-> <<"x">>]

NotADict == [is_dict |-> FALSE, type |-> "", has_enum |-> FALSE, enum |-> <<>>]
Shape(type, enum) == [is_dict |-> TRUE, type |-> type, has_enum |-> TRUE, enum |-> enum]
NoEnum(type) == [is_dict |-> TRUE, type |-> type, has_enum |-> FALSE, enum |-> <<>>]

ShapeDefs ==
    { NotADict, NoEnum("string"), Shape("structure", Repeat(1)),
      Shape("string", <<>>), Shape("string", Repeat(1)),
      Shape("string", Repeat(MaxEnumValues)),
      Shape("string", Repeat(MaxEnumValues + 1)) }

Unloadable == [loads |-> FALSE, shapes |-> <<>>]
Loaded(defs) ==
    [loads |-> TRUE, shapes |-> [i \in DOMAIN defs |-> <<ShapeKeys[i], defs[i]>>]]

\* counts[1] + ... + counts[i]
RECURSIVE SumTo(_, _)
SumTo(counts, i) == IF i = 0 THEN 0 ELSE counts[i] + SumTo(counts, i - 1)

\* the definitions of the services: service i loads or not, and has
\* counts[i] shapes, taken in order from defs
CatalogOf(loads, counts, defs) ==
    [i \in DOMAIN counts |->
        IF loads[i]
        THEN Loaded([k \in 1..counts[i] |-> defs[SumTo(counts, i - 1) + k]])
        ELSE Unloadable]

\* a catalog of at most MaxServices services with at most MaxShapes shapes
\* between them, each shape definition drawn from shape_defs
IsCatalog(shape_defs) ==
    \E n \in 0..MaxServices :
        /\ available_services = SubSeq(CatalogNames, 1, n)
        /\ \E loads \in [1..n -> BOOLEAN] :
           \E counts \in [1..n -> 0..MaxShapes] :
              /\ SumTo(counts, n) <= MaxShapes
              /\ \A i \in 1..n : ~loads[i] => counts[i] = 0
              /\ \E defs \in [1..SumTo(counts, n) -> shape_defs] :
                    models = CatalogOf(loads, counts, defs)

InitExtract ==
    /\ pc = "extract"
    /\ IsCatalog(ShapeDefs)
    /\ idx = 0
    /\ result = <<>>
    /\ IdleNames /\ IdleMain /\ IdleFile

NextExtract == LoadRaises \/ ScanService \/ ScanRaises \/ ReturnResult

SpecExtract == InitExtract /\ [][NextExtract]_vars

----------------------------------------------------------------------------
(* Properties of the extraction, checked under SpecExtract *)

Returned == pc = "generate"

InMapping(m, svc, shape_name) == HasKey(m, svc) /\ HasKey(Get(m, svc), shape_name)

\* the definition loads and every one of its shapes can be scanned
ScansClean(m) == m.loads /\ \A k \in DOMAIN m.shapes : m.shapes[k][2].is_dict

\* C2 as stated: a shape of a successfully loaded definition is in the
\* returned mapping iff its type is "string", it declares a non-empty
\* enum list, and the list has at most 500 values.
C2_NonEmptyEnumWithinCap ==
    Returned =>
        \A i \in DOMAIN models : ScansClean(models[i]) =>
            \A k \in DOMAIN models[i].shapes :
                LET d == models[i].shapes[k][2]
                IN  InMapping(all_enums, available_services[i], models[i].shapes[k][1])
                    <=> (d.type = "string" /\ d.has_enum /\ d.enum # <<>>
                         /\ Len(d.enum) <= 500)

\* C2 amended: a shape of a successfully loaded definition is in the
\* returned mapping iff its type is "string", it declares an enum list
\* (which may be empty), and the list has at most 500 values; the mapping
\* holds the list as declared.
C2_DeclaredEnumWithinCap ==
    Returned =>
        \A i \in DOMAIN models : ScansClean(models[i]) =>
            \A k \in DOMAIN models[i].shapes :
                LET d == models[i].shapes[k][2]
                    svc == available_services[i]
                    shape_name == models[i].shapes[k][1]
                IN  /\ InMapping(all_enums, svc, shape_name)
                       <=> (d.type = "string" /\ d.has_enum /\ Len(d.enum) <= 500)
                    /\ InMapping(all_enums, svc, shape_name)
                       => Get(Get(all_enums, svc), shape_name) = d.enum

C2_Witness ==
    /\ Returned
    /\ Len(models) = 1
    /\ Len(models[1].shapes) = 2
    /\ Len(models[1].shapes[1][2].enum) = 500
    /\ Len(models[1].shapes[2][2].enum) = 501
    /\ models[1].shapes[2][2].type = "string"
    /\ Keys(Get(all_enums, available_services[1])) = << models[1].shapes[1][1] >>

\* loading the definition or scanning its shapes raises
Fails(m) == ~ScansClean(m)

Contribution(m, svc) == IF HasKey(m, svc) THEN Get(m, svc) ELSE <<>>

\* the shapes of one definition that are enum shapes within the cap
OwnShapes(m) ==
    LET kept == SelectSeq(m.shapes, LAMBDA sh : sh[2].type = "string" /\ sh[2].has_enum
                                               /\ Len(sh[2].enum) <= 500)
    IN  [k \in DOMAIN kept |-> <<kept[k][1], kept[k][2].enum>>]

\* C4: a service whose definition cannot be loaded or scanned contributes
\* no shape to the returned mapping, and every other service contributes
\* what it would contribute without it.
C4_FailingServiceSkipped ==
    Returned =>
        \A i \in DOMAIN models :
            IF Fails(models[i])
            THEN ~HasKey(all_enums, available_services[i])
            ELSE Contribution(all_enums, available_services[i]) = OwnShapes(models[i])

----------------------------------------------------------------------------
(* main: generate, serialize, write *)

\* output = generate_enum_data(all_enums)
Generate ==
    /\ pc = "generate"
    /\ output' = generate_enum_data(all_enums)
    /\ pc' = "serialize"
    /\ UNCHANGED <<all_enums, data>>
    /\ UNCHANGED <<nameVars, extractVars, fileVars>>

\* json.dumps(output, indent=2, sort_keys=True), the argument of write_text
Serialize ==
    /\ pc = "serialize"
    /\ data' = dumps(output)
    /\ pc' = "mkdir"
    /\ UNCHANGED <<all_enums, output>>
    /\ UNCHANGED <<nameVars, extractVars, fileVars>>

\* args.output.parent.mkdir(parents=True, exist_ok=True)
Mkdir ==
    /\ pc = "mkdir"
    /\ pc' = "open"
    /\ UNCHANGED <<nameVars, extractVars, mainVars, fileVars>>

MkdirFails ==
    /\ pc = "mkdir"
    /\ pc' = "failed"
    /\ UNCHANGED <<nameVars, extractVars, mainVars, fileVars>>

\* write_text opens the destination for writing, which creates it or
\* truncates what it held
OpenFile ==
    /\ pc = "open"
    /\ file' = [exists |-> TRUE, lines |-> <<>>]
    /\ pc' = "write"
    /\ UNCHANGED old_file
    /\ UNCHANGED <<nameVars, extractVars, mainVars>>

OpenFails ==
    /\ pc = "open"
    /\ pc' = "failed"
    /\ UNCHANGED <<nameVars, extractVars, mainVars, fileVars>>

Written == Len(file.lines)

\* some more of the text reaches the file
WriteChunk ==
    /\ pc = "write"
    /\ Written < Len(data)
    /\ \E n \in (Written + 1)..Len(data) :
          file' = [file EXCEPT !.lines = SubSeq(data, 1, n)]
    /\ UNCHANGED <<pc, old_file>>
    /\ UNCHANGED <<nameVars, extractVars, mainVars>>

\* the write raises before the whole text is in the file
WriteFails ==
    /\ pc = "write"
    /\ Written < Len(data)
    /\ pc' = "failed"
    /\ UNCHANGED <<nameVars, extractVars, mainVars, fileVars>>

\* the file is closed; main prints its last messages
CloseFile ==
    /\ pc = "write"
    /\ Written = Len(data)
    /\ pc' = "done"
    /\ UNCHANGED <<nameVars, extractVars, mainVars, fileVars>>

----------------------------------------------------------------------------
(* A run of main over a small catalog *)

Absent == [exists |-> FALSE, lines |-> <<>>]
Earlier == [exists |-> TRUE, lines |-> dumps([services |-> <<>>])]

MainShapeDefs ==
    { NotADict,
      Shape("string", << <<"x">>, <<"(">> >>),
      Shape("string", << <<"(">> >>) }

Init ==
    /\ pc = "extract"
    /\ IsCatalog(MainShapeDefs)
    /\ idx = 0
    /\ result = <<>>
    /\ old_file \in {Absent, Earlier}
    /\ file = old_file
    /\ IdleNames /\ IdleMain

Next ==
    \/ LoadRaises \/ ScanService \/ ScanRaises \/ ReturnResult
    \/ Generate \/ Serialize
    \/ Mkdir \/ MkdirFails \/ OpenFile \/ OpenFails
    \/ WriteChunk \/ WriteFails \/ CloseFile

Spec == Init /\ [][Next]_vars

\* C3: after a run that failed while writing the output document, the
\* destination file is as it was before the run or holds the complete
\* serialized document.
C3_NoPartialFile ==
    pc = "failed" => (file = old_file \/ file = [exists |-> TRUE, lines |-> data])

----------------------------------------------------------------------------
(* generate_enum_data and json.dumps over extractor mappings *)

MapServiceNames == { <<"a","-","b">>, <<"a","b">>, <<"s","3">> }
MapShapeNames == { <<"B">>, <<"a">>, <<"a","B">> }
MapLists ==
    { <<>>, << <<"(">> >>, << <<"1",".","x">> >>,
      << <<"x">>, <<"(">>, <<"X">>, <<"x">> >> }

\* what the extractor stores, one shape at a time
RECURSIVE Build(_, _)
Build(stores, res) ==
    IF stores = <<>> THEN res
    ELSE Build(Tail(stores), DefaultSet(res, stores[1][1], stores[1][2], stores[1][3]))

Stores ==
    UNION {[1..n -> MapServiceNames \X MapShapeNames \X MapLists] : n \in 0..MaxMapShapes}

Mappings ==
    {Build(st, <<>>) : st \in {t \in Stores :
        \A i, j \in DOMAIN t : i # j => <<t[i][1], t[i][2]>> # <<t[j][1], t[j][2]>>}}

InitAssemble ==
    /\ pc = "generate"
    /\ all_enums \in Mappings
    /\ output = [services |-> <<>>]
    /\ data = <<>>
    /\ IdleNames /\ IdleExtract /\ IdleFile

NextAssemble == Generate \/ Serialize

SpecAssemble == InitAssemble /\ [][NextAssemble]_vars

----------------------------------------------------------------------------
(* Properties of the assembled document, checked under SpecAssemble *)

Generated == pc \in {"serialize", "mkdir"}
Serialized == pc = "mkdir"

\* the positions of the raw values that have a Python-style name
C9_Kept(values) == {i \in DOMAIN values : to_python_const_name(values[i]) # <<>>}

\* the k-th of them
C9_Nth(values, k) ==
    CHOOSE i \in C9_Kept(values) : Cardinality({j \in C9_Kept(values) : j < i}) = k - 1

C9_Entry(svc, shape_name, v) ==
    [value |-> v, goName |-> to_go_const_name(svc, shape_name, v),
     pyName |-> to_python_const_name(v)]

C9_ShapesOf(doc, svc) == IF HasKey(doc.services, svc) THEN Get(doc.services, svc) ELSE <<>>

\* C9: the document has, for each shape, one entry per raw value with a
\* non-empty Python-style name, in the values' order, duplicates and
\* colliding names kept; a shape is in the document iff it keeps an entry,
\* a service iff it keeps a shape; the empty mapping gives no services.
C9_DocumentContent ==
    Generated =>
        /\ \A s \in DOMAIN all_enums :
              LET svc == all_enums[s][1]
                  shapes == all_enums[s][2]
              IN  /\ HasKey(output.services, svc)
                     <=> \E t \in DOMAIN shapes : C9_Kept(shapes[t][2]) # {}
                  /\ \A t \in DOMAIN shapes :
                        LET shape_name == shapes[t][1]
                            values == shapes[t][2]
                            present == HasKey(C9_ShapesOf(output, svc), shape_name)
                        IN  /\ present <=> C9_Kept(values) # {}
                            /\ present =>
                                 LET e == Get(C9_ShapesOf(output, svc), shape_name)
                                 IN  /\ e.name = shape_name
                                     /\ Len(e.values) = Cardinality(C9_Kept(values))
                                     /\ \A k \in DOMAIN e.values :
                                           e.values[k] =
                                             C9_Entry(svc, shape_name, values[C9_Nth(values, k)])
        /\ \A s \in DOMAIN output.services :
              /\ HasKey(all_enums, output.services[s][1])
              /\ \A t \in DOMAIN output.services[s][2] :
                    HasKey(Get(all_enums, output.services[s][1]), output.services[s][2][t][1])
              /\ \A s2 \in DOMAIN output.services :
                    output.services[s2][1] = output.services[s][1] => s2 = s
              /\ \A t, t2 \in DOMAIN output.services[s][2] :
                    output.services[s][2][t2][1] = output.services[s][2][t][1] => t2 = t
        /\ all_enums = <<>> => output = [services |-> <<>>]

C9_Witness ==
    /\ pc = "serialize"
    /\ all_enums = << << <<"s","3">>,
                         << << <<"a">>, << <<"x">>, <<"(">>, <<"X">>, <<"x">> >> >>,
                            << <<"B">>, << <<"(">> >> >> >> >> >>
    /\ Keys(output.services) = << <<"s","3">> >>
    /\ Keys(output.services[1][2]) = << <<"a">> >>
    /\ [k \in 1..3 |-> output.services[1][2][1][2].values[k].pyName]
           = << <<"X">>, <<"X">>, <<"X">> >>

\* a JSON key as written, without its quotes
Unquote(k) == SubSeq(k, 2, Len(k) - 1)

NonDecreasing(keys) ==
    \A i, j \in DOMAIN keys : i < j => ~StrLess(keys[j], keys[i])

\* the keys opened at one indent level between two lines of the text
KeysAt(level, from, to) ==
    LET opened == SelectSeq(SubSeq(data, from, to),
                            LAMBDA l : l[1] = level /\ l[2] = "{")
    IN  [i \in DOMAIN opened |-> Unquote(opened[i][3])]

\* the end of the object opened at a line: the next line at its level
ObjectEnd(from) ==
    CHOOSE j \in (from + 1)..Len(data) :
        /\ data[j][1] = data[from][1]
        /\ \A k \in (from + 1)..(j - 1) : data[k][1] > data[from][1]

Orders(d) ==
    {[i \in DOMAIN d |-> d[p[i]]] :
        p \in {q \in [DOMAIN d -> DOMAIN d] : \A i, j \in DOMAIN d : q[i] = q[j] => i = j}}

RECURSIVE InnerOrders(_)
InnerOrders(m) ==
    IF m = <<>> THEN {<<>>}
    ELSE {<< <<m[1][1], sh>> >> \o rest : sh \in Orders(m[1][2]), rest \in InnerOrders(Tail(m))}

\* the mappings with the content of m, in every insertion order
Reorderings(m) == UNION {Orders(x) : x \in InnerOrders(m)}

\* C10: the emitted document lists the service keys, and the shape keys of
\* each service, in non-decreasing lexicographic order, and the same
\* mapping inserted in any other order gives the same document.
C10_SortedAndOrderIndependent ==
    Serialized =>
        /\ NonDecreasing(KeysAt(2, 1, Len(data)))
        /\ \A i \in DOMAIN data :
              (data[i][1] = 2 /\ data[i][2] = "{")
                  => NonDecreasing(KeysAt(3, i, ObjectEnd(i)))
        /\ NonDecreasing(Keys(output.services))
        /\ \A s \in DOMAIN output.services : NonDecreasing(Keys(output.services[s][2]))
        /\ \A m \in Reorderings(all_enums) : dumps(generate_enum_data(m)) = data

C10_Witness ==
    /\ Serialized
    /\ Keys(all_enums) = << <<"a","b">> >>
    /\ Keys(all_enums[1][2]) = << <<"a">>, <<"B">> >>
    /\ KeysAt(3, 1, Len(data)) = << <<"B">>, <<"a">> >>

====
